---------------------------- MODULE Spec2Model ----------------------------
(***************************************************************************)
(* Model of PDFParser (src/pdf_parser.py): the section segmenter, the      *)
(* table normaliser, the chart detector, the page assembler and the        *)
(* extract_to_json run over one document.                                  *)
(*                                                                         *)
(* A Python str is a sequence of one-character strings.  Python's None is  *)
(* the value None below, which is no character sequence because its only   *)
(* element is not a single character.                                      *)
(***************************************************************************)
EXTENDS Integers, Sequences, FiniteSets, TLC

\* ------------------------------------------------------------------------
\* Bounds of the model
\* ------------------------------------------------------------------------
MaxLines == 3
MaxPages == 2
MaxCalls == 2

\* ------------------------------------------------------------------------
\* Characters and strings
\* ------------------------------------------------------------------------
None == <<"None">>

Upper == {"A", "B", "C", "D", "E", "F", "G", "H", "I", "J", "K", "L", "M", "N", "O", "P", "Q", "R", "S", "T", "U", "V", "W", "X", "Y", "Z"}

Lower == {"a", "b", "c", "d", "e", "f", "g", "h", "i", "j", "k", "l", "m", "n", "o", "p", "q", "r", "s", "t", "u", "v", "w", "x", "y", "z"}

Digit == {"0", "1", "2", "3", "4", "5", "6", "7", "8", "9"}

\* what str.strip() removes and what \s matches
Whitespace == {" ", "\t", "\n", "\r", "\f"}

NL == "\n"

SetMin(S) == CHOOSE x \in S : \A y \in S : x <= y

SetMax(S) == CHOOSE x \in S : \A y \in S : x >= y

\* Python truthiness of an Optional[str] / list: None and the empty value are false
Truthy(v) == v # None /\ v # <<>>

\* str.strip()
Strip(s) ==
    LET keep == {i \in 1..Len(s) : s[i] \notin Whitespace}
    IN  IF keep = {} THEN <<>> ELSE SubSeq(s, SetMin(keep), SetMax(keep))

\* str.split('\n'): always at least one piece
RECURSIVE Split(_)
Split(s) ==
    LET nl == {i \in 1..Len(s) : s[i] = NL}
    IN  IF nl = {} THEN <<s>>
        ELSE <<SubSeq(s, 1, SetMin(nl) - 1)>> \o Split(SubSeq(s, SetMin(nl) + 1, Len(s)))

\* sep.join(parts)
RECURSIVE Join(_, _)
Join(sep, parts) ==
    IF parts = <<>> THEN <<>>
    ELSE IF Len(parts) = 1 THEN parts[1]
    ELSE parts[1] \o sep \o Join(sep, Tail(parts))

\* str.lower()
LowerOf(c) ==
    LET up == <<"A", "B", "C", "D", "E", "F", "G", "H", "I", "J", "K", "L", "M", "N", "O", "P", "Q", "R", "S", "T", "U", "V", "W", "X", "Y", "Z">>
        lo == <<"a", "b", "c", "d", "e", "f", "g", "h", "i", "j", "k", "l", "m", "n", "o", "p", "q", "r", "s", "t", "u", "v", "w", "x", "y", "z">>
    IN  IF c \in Upper THEN lo[CHOOSE i \in 1..26 : up[i] = c] ELSE c

ToLower(s) == [i \in 1..Len(s) |-> LowerOf(s[i])]

\* needle in hay (substring test)
Contains(hay, needle) ==
    \E i \in 1..(Len(hay) - Len(needle) + 1) : SubSeq(hay, i, i + Len(needle) - 1) = needle

\* str(n) for n >= 0, as an f-string renders an int
RECURSIVE IntToStr(_)
IntToStr(n) ==
    LET d == <<"0", "1", "2", "3", "4", "5", "6", "7", "8", "9">>
    IN  IF n < 10 THEN <<d[n + 1]>> ELSE IntToStr(n \div 10) \o <<d[(n % 10) + 1]>>

\* number of consecutive characters of s, from index from on, for which the
\* class test holds (a greedy regex repetition)
SpanIn(s, from, class) ==
    LET stops == {i \in from..Len(s) : s[i] \notin class}
    IN  IF from > Len(s) THEN 0
        ELSE IF stops = {} THEN Len(s) - from + 1 ELSE SetMin(stops) - from

SpanNotIn(s, from, excluded) ==
    LET stops == {i \in from..Len(s) : s[i] \in excluded}
    IN  IF from > Len(s) THEN 0
        ELSE IF stops = {} THEN Len(s) - from + 1 ELSE SetMin(stops) - from

\* ------------------------------------------------------------------------
\* section_patterns, matched with re.match on a stripped line (which holds
\* no newline, being a piece of text.split('\n'))
\* ------------------------------------------------------------------------

\* r'^\d+\.\s+([A-Z][^\n]+)$'
NumberedGroupStart(s) == SpanIn(s, 1, Digit) + 1 + SpanIn(s, SpanIn(s, 1, Digit) + 2, Whitespace) + 1

MatchNumbered(s) ==
    LET d == SpanIn(s, 1, Digit)
        w == SpanIn(s, d + 2, Whitespace)
        g == NumberedGroupStart(s)
    IN  /\ d >= 1
        /\ d + 1 <= Len(s)
        /\ s[d + 1] = "."
        /\ w >= 1
        /\ g + 1 <= Len(s)
        /\ s[g] \in Upper
        /\ \A i \in (g + 1)..Len(s) : s[i] # NL

GroupNumbered(s) == SubSeq(s, NumberedGroupStart(s), Len(s))

\* r'^([A-Z][A-Z\s]+)$'
MatchAllCaps(s) ==
    /\ Len(s) >= 2
    /\ s[1] \in Upper
    /\ \A i \in 2..Len(s) : s[i] \in Upper \cup Whitespace

GroupAllCaps(s) == s

\* r'^([A-Z][a-z\s]+):'   (no $: text may follow the colon)
MatchTitleColon(s) ==
    LET k == SpanIn(s, 2, Lower \cup Whitespace)
    IN  /\ Len(s) >= 1
        /\ s[1] \in Upper
        /\ k >= 1
        /\ k + 2 <= Len(s)
        /\ s[k + 2] = ":"

GroupTitleColon(s) == SubSeq(s, 1, SpanIn(s, 2, Lower \cup Whitespace) + 1)

\* r'^\*\*([^\*]+)\*\*'
MatchBold(s) ==
    LET k == SpanNotIn(s, 3, {"*"})
    IN  /\ Len(s) >= 2
        /\ s[1] = "*"
        /\ s[2] = "*"
        /\ k >= 1
        /\ k + 4 <= Len(s)
        /\ s[k + 3] = "*"
        /\ s[k + 4] = "*"

GroupBold(s) == SubSeq(s, 3, SpanNotIn(s, 3, {"*"}) + 2)

\* the list section_patterns, 1-based here (section_patterns[0] is pattern 1)
PatternMatches(p, s) ==
    CASE p = 1 -> MatchNumbered(s)
      [] p = 2 -> MatchAllCaps(s)
      [] p = 3 -> MatchTitleColon(s)
      [] p = 4 -> MatchBold(s)

\* match.group(1)
PatternGroup(p, s) ==
    CASE p = 1 -> GroupNumbered(s)
      [] p = 2 -> GroupAllCaps(s)
      [] p = 3 -> GroupTitleColon(s)
      [] p = 4 -> GroupBold(s)

\* the pattern at which "for pattern in section_patterns" breaks; 0 when the
\* loop ends without a match (is_section stays False)
FirstMatch(s) ==
    LET hits == {p \in 1..4 : PatternMatches(p, s)}
    IN  IF hits = {} THEN 0 ELSE SetMin(hits)

\* ------------------------------------------------------------------------
\* extract_sections_from_text
\* ------------------------------------------------------------------------
Paragraph(section, sub_section, txt) ==
    [type |-> "paragraph", section |-> section, sub_section |-> sub_section, text |-> txt]

\* locals of extract_sections_from_text before the loop
SegStart == [segments |-> <<>>, current_section |-> None, current_subsection |-> None, current_text |-> <<>>]

\* FlushParagraph joining the pending lines with their line breaks
FlushParagraphKeepsBreaks(st) ==
    IF st.current_text # <<>>
    THEN Append(st.segments,
                Paragraph(st.current_section, st.current_subsection, Strip(Join(<<NL>>, st.current_text))))
    ELSE st.segments

\* "if current_text: segments.append({...})" : the pending lines become one
\* paragraph tagged with the context in force
FlushParagraph(st) ==
    IF st.current_text # <<>>
    THEN Append(st.segments,
                Paragraph(st.current_section, st.current_subsection, Strip(Join(<<" ">>, st.current_text))))
    ELSE st.segments

\* UpdateContext with "current_subsection = None" left out
UpdateContextKeepsSubsection(st, p, g) ==
    IF p = 1 \/ p = 2
    THEN [current_section |-> Strip(g), current_subsection |-> st.current_subsection]
    ELSE [current_section |-> st.current_section, current_subsection |-> Strip(g)]

\* "Update section context" for the pattern p that matched, group g
UpdateContext(st, p, g) ==
    IF p = 1 \/ p = 2
    THEN [current_section |-> Strip(g), current_subsection |-> None]
    ELSE [current_section |-> st.current_section, current_subsection |-> Strip(g)]

\* LoopBody with "if not is_section" left out: a heading line is also appended
LoopBodyKeepsHeading(st, rawline) ==
    LET line == Strip(rawline)
        p == FirstMatch(line)
        ctx == UpdateContext(st, p, PatternGroup(p, line))
    IN  IF line = <<>> THEN st
        ELSE IF p = 0 THEN [st EXCEPT !.current_text = Append(@, line)]
        ELSE [segments |-> FlushParagraph(st),
              current_section |-> ctx.current_section,
              current_subsection |-> ctx.current_subsection,
              current_text |-> <<line>>]

\* LoopBody with the context updated before the pending paragraph is saved
LoopBodyTagsAfterUpdate(st, rawline) ==
    LET line == Strip(rawline)
        p == FirstMatch(line)
        ctx == UpdateContext(st, p, PatternGroup(p, line))
    IN  IF line = <<>> THEN st
        ELSE IF p = 0 THEN [st EXCEPT !.current_text = Append(@, line)]
        ELSE [segments |-> FlushParagraph([st EXCEPT !.current_section = ctx.current_section,
                                                     !.current_subsection = ctx.current_subsection]),
              current_section |-> ctx.current_section,
              current_subsection |-> ctx.current_subsection,
              current_text |-> <<>>]

\* LoopBody in which a blank line closes the pending paragraph
LoopBodyBlankCloses(st, rawline) ==
    LET line == Strip(rawline)
        p == FirstMatch(line)
        ctx == UpdateContext(st, p, PatternGroup(p, line))
    IN  IF line = <<>> THEN [st EXCEPT !.segments = FlushParagraph(st), !.current_text = <<>>]
        ELSE IF p = 0 THEN [st EXCEPT !.current_text = Append(@, line)]
        ELSE [segments |-> FlushParagraph(st),
              current_section |-> ctx.current_section,
              current_subsection |-> ctx.current_subsection,
              current_text |-> <<>>]

\* one iteration of "for line in lines"
LoopBody(st, rawline) ==
    LET line == Strip(rawline)
        p == FirstMatch(line)
        ctx == UpdateContext(st, p, PatternGroup(p, line))
    IN  IF line = <<>> THEN st
        ELSE IF p = 0 THEN [st EXCEPT !.current_text = Append(@, line)]
        ELSE [segments |-> FlushParagraph(st),
              current_section |-> ctx.current_section,
              current_subsection |-> ctx.current_subsection,
              current_text |-> <<>>]

\* ReturnValue with a plain "return segments"
ReturnValueNoFallback(st, txt) == FlushParagraph(st)

\* "Add final segment" and the return statement with its fallback
ReturnValue(st, txt) ==
    LET final == FlushParagraph(st)
    IN  IF final # <<>> THEN final ELSE <<Paragraph(None, None, Strip(txt))>>

RECURSIVE SegLoop(_, _, _)
SegLoop(st, ls, i) ==
    IF i > Len(ls) THEN st ELSE SegLoop(LoopBody(st, ls[i]), ls, i + 1)

extract_sections_from_text(txt) == ReturnValue(SegLoop(SegStart, Split(txt), 1), txt)

\* ------------------------------------------------------------------------
\* extract_tables
\* ------------------------------------------------------------------------
S_Table == <<"T", "a", "b", "l", "e", " ">>

S_Extracted == <<"E", "x", "t", "r", "a", "c", "t", "e", "d", " ", "t", "a", "b", "l", "e", " ", "w", "i", "t", "h", " ">>

S_RowsAnd == <<" ", "r", "o", "w", "s", " ", "a", "n", "d", " ">>

S_Columns == <<" ", "c", "o", "l", "u", "m", "n", "s">>

\* a cell that is neither None nor a str (a number, say): it is truthy and
\* cell.strip() raises AttributeError
NotAStr == <<"NotAStr">>

\* CleanCell without the strip call
CleanCellKeepsSpaces(cell) == IF Truthy(cell) THEN cell ELSE <<>>

\* "cell.strip() if cell else ''"
CleanCell(cell) == IF Truthy(cell) THEN Strip(cell) ELSE <<>>

CleanRow(row) == [j \in 1..Len(row) |-> CleanCell(row[j])]

CleanTable(table) == [r \in 1..Len(table) |-> CleanRow(table[r])]

\* the cleaning of this raw table raises
CleanRaises(table) == \E r \in 1..Len(table) : \E j \in 1..Len(table[r]) : table[r][j] = NotAStr

\* TableSegment labelled f"Table {i}" instead of f"Table {i+1}"
TableSegmentZeroBased(k, table) ==
    LET cleaned_table == CleanTable(table)
    IN  [type |-> "table",
         section |-> S_Table \o IntToStr(k - 1),
         sub_section |-> None,
         description |-> S_Extracted \o IntToStr(Len(cleaned_table)) \o S_RowsAnd
                         \o IntToStr(IF cleaned_table # <<>> THEN Len(cleaned_table[1]) ELSE 0)
                         \o S_Columns,
         table_data |-> cleaned_table]

\* the dict appended for the raw table at 1-based position k (i = k - 1)
TableSegment(k, table) ==
    LET cleaned_table == CleanTable(table)
    IN  [type |-> "table",
         section |-> S_Table \o IntToStr(k),
         sub_section |-> None,
         description |-> S_Extracted \o IntToStr(Len(cleaned_table)) \o S_RowsAnd
                         \o IntToStr(IF cleaned_table # <<>> THEN Len(cleaned_table[1]) ELSE 0)
                         \o S_Columns,
         table_data |-> cleaned_table]

\* "for i, table in enumerate(page_tables)" inside the one try block: an
\* exception leaves the loop, the tables appended so far stay
RECURSIVE TablesLoop(_, _, _)
TablesLoop(page_tables, k, tables) ==
    IF k > Len(page_tables) THEN tables
    ELSE IF page_tables[k] = <<>> THEN TablesLoop(page_tables, k + 1, tables)
    ELSE IF CleanRaises(page_tables[k]) THEN tables
    ELSE TablesLoop(page_tables, k + 1, Append(tables, TableSegment(k, page_tables[k])))

extract_tables(page) ==
    IF page.tables_raise THEN <<>> ELSE TablesLoop(page.tables, 1, <<>>)

\* ------------------------------------------------------------------------
\* detect_charts
\* ------------------------------------------------------------------------
S_Chart == <<"C", "h", "a", "r", "t", " ">>

S_TextRef == <<"T", "e", "x", "t", "-", "r", "e", "f", "e", "r", "e", "n", "c", "e", "d", " ", "C", "h", "a", "r", "t">>

S_NoContext == <<"N", "o", " ", "c", "o", "n", "t", "e", "x", "t", " ", "t", "e", "x", "t", " ", "f", "o", "u", "n", "d">>

S_Detected == <<"D", "e", "t", "e", "c", "t", "e", "d", " ", "c", "h", "a", "r", "t", "/", "i", "m", "a", "g", "e", " ", "a", "t", " ", "c", "o", "o", "r", "d", "i", "n", "a", "t", "e", "s", " ">>

chart_keywords ==
    << <<"c", "h", "a", "r", "t">>, <<"g", "r", "a", "p", "h">>, <<"f", "i", "g", "u", "r", "e">>,
       <<"d", "i", "a", "g", "r", "a", "m">>, <<"p", "l", "o", "t">> >>

ContextLimit == 200

\* f"{bbox}" of the tuple (x0, top, x1, bottom)
FormatBBox(img) ==
    <<"(">> \o IntToStr(img.x0) \o <<",", " ">> \o IntToStr(img.top) \o <<",", " ">>
            \o IntToStr(img.x1) \o <<",", " ">> \o IntToStr(img.bottom) \o <<")">>

\* nearby_text[:200]
Truncate(s, n) == SubSeq(s, 1, IF Len(s) < n THEN Len(s) ELSE n)

\* chart_info of the image at 1-based position k
SpatialChart(k, img) ==
    [type |-> "chart",
     section |-> S_Chart \o IntToStr(k),
     sub_section |-> None,
     description |-> S_Detected \o FormatBBox(img),
     chart_data |-> <<>>,
     context_text |-> IF Truthy(img.nearby) THEN Truncate(img.nearby, ContextLimit) ELSE S_NoContext]

\* "for i, img in enumerate(page.images)": page.within_bbox(bbox) raises for
\* an image with raises set; the charts appended so far stay in the list
RECURSIVE SpatialLoop(_, _, _)
SpatialLoop(images, k, charts) ==
    IF k > Len(images) THEN [raised |-> FALSE, charts |-> charts]
    ELSE IF images[k].raises THEN [raised |-> TRUE, charts |-> charts]
    ELSE SpatialLoop(images, k + 1, Append(charts, SpatialChart(k, images[k])))

HasKeyword(line) == \E w \in 1..Len(chart_keywords) : Contains(ToLower(line), chart_keywords[w])

KeywordChart(line) ==
    [type |-> "chart",
     section |-> S_TextRef,
     sub_section |-> None,
     description |-> Strip(line),
     chart_data |-> <<>>,
     context_text |-> Strip(line)]

\* "for line in lines: if any(...): charts.append(...); break"
KeywordCharts(txt) ==
    LET ls == Split(txt)
        hits == {i \in 1..Len(ls) : HasKeyword(ls[i])}
    IN  IF hits = {} THEN <<>> ELSE <<KeywordChart(ls[SetMin(hits)])>>

\* one try block around both strategies
detect_charts(page) ==
    LET spatial == SpatialLoop(page.images, 1, <<>>)
    IN  IF spatial.raised \/ page.text_raises THEN spatial.charts
        ELSE IF Truthy(page.text) THEN spatial.charts \o KeywordCharts(page.text)
        ELSE spatial.charts

\* ------------------------------------------------------------------------
\* process_page
\* ------------------------------------------------------------------------
\* PageContent with the tables extended before the text segments
PageContentTablesFirst(text_segments, tables, charts) == tables \o text_segments \o charts

\* page_data["content"] after the three extend calls
PageContent(text_segments, tables, charts) == text_segments \o tables \o charts

\* raised: page.extract_text() raised and nothing is returned
process_page(page_num, page) ==
    IF page.text_raises THEN [raised |-> TRUE, page_number |-> page_num, content |-> <<>>]
    ELSE [raised |-> FALSE,
          page_number |-> page_num,
          content |-> PageContent(IF Truthy(page.text) THEN extract_sections_from_text(page.text) ELSE <<>>,
                                  extract_tables(page),
                                  detect_charts(page))]

\* ------------------------------------------------------------------------
\* Inputs
\* ------------------------------------------------------------------------
L_Intro == <<"1", ".", " ", "I", "n", "t", "r", "o">>

L_Overview == <<"1", ".", " ", "O", "v", "e", "r", "v", "i", "e", "w">>

L_SUMMARY == <<"S", "U", "M", "M", "A", "R", "Y">>

L_SummaryColon == <<"S", "u", "m", "m", "a", "r", "y", ":">>

L_NoteSee == <<"N", "o", "t", "e", ":", " ", "s", "e", "e">>

L_Bold == <<"*", "*", "B", "o", "l", "d", "*", "*">>

L_BlankBold == <<"*", "*", " ", "*", "*">>

L_Hello == <<"H", "e", "l", "l", "o", " ", "w", "o", "r", "l", "d">>

L_NextText == <<" ", "N", "e", "x", "t", " ", "t", "e", "x", "t", " ">>

L_Short == <<"S", "h", "o", "r", "t", " ", "t", "e", "x", "t", " ", "h", "e", "r", "e">>

L_SeeChart == <<"S", "e", "e", " ", "t", "h", "e", " ", "c", "h", "a", "r", "t", " ", "b", "e", "l", "o", "w">>

L_Graph == <<"A", "n", "o", "t", "h", "e", "r", " ", "g", "r", "a", "p", "h", " ", "h", "e", "r", "e">>

L_intro == <<"i", "n", "t", "r", "o">>

\* the lines page texts are built from: one line per heading shape, body
\* lines, an empty line and a whitespace-only line
SampleLines ==
    {L_Intro, L_SUMMARY, L_SummaryColon, L_NoteSee, L_Bold, L_BlankBold,
     L_Hello, L_NextText, L_SeeChart, <<>>, <<" ">>}

\* "1. Intro\nHello world\n\nSUMMARY\nShort text here"
T_IntroSummary == Join(<<NL>>, <<L_Intro, L_Hello, <<>>, L_SUMMARY, L_Short>>)

\* "1. Overview\nSummary:\nNext text"
T_Overview == Join(<<NL>>, <<L_Overview, L_SummaryColon, <<"N", "e", "x", "t", " ", "t", "e", "x", "t">> >>)

\* "intro\nSee the chart below\nAnother graph here"
T_Charts == Join(<<NL>>, <<L_intro, L_SeeChart, L_Graph>>)

\* the sequences of at most MaxLines sample lines
LineLists == UNION {[1..n -> SampleLines] : n \in 1..MaxLines}

ScenarioTexts == {T_IntroSummary, T_Overview, T_Charts}

\* raw tables as page.extract_tables() returns them
RawTable_AB == << <<<<"A">>, <<" ", "b", " ">>>>, <<<<"1">>, <<"2">>>> >>

RawTable_Foo == << <<<<" ", " ", "f", "o", "o", " ", " ">>, None, <<>>>> >>

RawTable_EmptyRow == << <<>> >>

RawTable_Bad == << <<<<"x">>, NotAStr>> >>

SampleTables == {<<>>, RawTable_AB, RawTable_Foo, RawTable_EmptyRow, RawTable_Bad}

MaxTables == 2

TableLists == UNION {[1..n -> SampleTables] : n \in 0..MaxTables}

\* a text of ContextLimit + 1 characters
LongText == [i \in 1..(ContextLimit + 1) |-> "x"]

Image(x0, top, x1, bottom, nearby, raises) ==
    [x0 |-> x0, top |-> top, x1 |-> x1, bottom |-> bottom, nearby |-> nearby, raises |-> raises]

SampleImages ==
    {Image(0, 0, 10, 10, L_Hello, FALSE),
     Image(5, 20, 40, 60, None, FALSE),
     Image(1, 2, 3, 4, LongText, FALSE),
     Image(0, 0, 999, 999, None, TRUE)}

MaxImages == 2

ImageLists == UNION {[1..n -> SampleImages] : n \in 0..MaxImages}

Page(text_raises, txt, tables_raise, tables, images) ==
    [text_raises |-> text_raises, text |-> txt, tables_raise |-> tables_raise,
     tables |-> tables, images |-> images]

\* a keyword line of more than ContextLimit characters
L_LongChart == <<"c", "h", "a", "r", "t", " ">> \o LongText

PageTexts == {None, L_Hello, L_SUMMARY, <<" ">>, T_Charts, L_LongChart}

\* the pages documents are made of
DocPages ==
    {Page(FALSE, L_Hello, FALSE, <<>>, <<>>),
     Page(FALSE, T_IntroSummary, FALSE, <<RawTable_AB>>, <<Image(0, 0, 10, 10, L_Hello, FALSE)>>),
     Page(FALSE, L_SUMMARY, FALSE, <<RawTable_Bad, RawTable_AB>>, <<>>),
     Page(FALSE, T_Charts, FALSE, <<>>, <<Image(0, 0, 999, 999, None, TRUE)>>),
     Page(FALSE, None, FALSE, <<>>, <<>>),
     Page(FALSE, L_SeeChart, TRUE, <<>>, <<>>),
     Page(TRUE, None, FALSE, <<RawTable_AB>>, <<>>)}

Docs == UNION {[1..n -> DocPages] : n \in 0..MaxPages}

NoPage == Page(FALSE, None, FALSE, <<>>, <<>>)

\* ------------------------------------------------------------------------
\* State
\* ------------------------------------------------------------------------
VARIABLES
    text,                \* argument of extract_sections_from_text
    lines,               \* text.split('\n')
    line_idx,            \* position of "for line in lines" (1-based)
    segments,
    current_section,
    current_subsection,
    current_text,
    seg_pc,              \* "idle", "loop", "done"
    seg_result,          \* value returned by extract_sections_from_text
    page,                \* the page a method is called on
    called,              \* the method called on page, "none" before the call
    out,                 \* what that method returned
    doc,                 \* the pages of the file at pdf_path
    document,            \* self.document: "None", "open", "closed"
    pages,               \* self.extracted_data["pages"]
    total_pages,         \* self.extracted_data["metadata"]["total_pages"]
    page_idx,            \* position of the loop over self.document.pages
    pc,                  \* position in extract_to_json
    ret,                 \* what extract_to_json returned: "none", "empty" ({}), "data"
    calls                \* extract_to_json calls started on this parser

seg_vars == <<text, lines, line_idx, segments, current_section, current_subsection,
              current_text, seg_pc, seg_result>>

page_vars == <<page, called, out>>

doc_vars == <<doc, document, pages, total_pages, page_idx, pc, ret, calls>>

vars == <<seg_vars, page_vars, doc_vars>>

SegIdle ==
    /\ text = <<>> /\ lines = <<>> /\ line_idx = 1 /\ segments = <<>>
    /\ current_section = None /\ current_subsection = None /\ current_text = <<>>
    /\ seg_pc = "idle" /\ seg_result = <<>>

PageIdle == page = NoPage /\ called = "none" /\ out = <<>>

DocIdle ==
    /\ doc = <<>> /\ document = "None" /\ pages = <<>> /\ total_pages = 0
    /\ page_idx = 1 /\ pc = "idle" /\ ret = "none" /\ calls = 0

\* ------------------------------------------------------------------------
\* The segmenter, one loop iteration per step
\* ------------------------------------------------------------------------
\* the argument is a non-empty text: sample lines joined by newlines, or a scenario
SegInit ==
    /\ \/ \E ls \in LineLists : text = Join(<<NL>>, ls)
       \/ text \in ScenarioTexts
    /\ text # <<>>
    /\ lines = Split(text)
    /\ line_idx = 1
    /\ segments = SegStart.segments
    /\ current_section = SegStart.current_section
    /\ current_subsection = SegStart.current_subsection
    /\ current_text = SegStart.current_text
    /\ seg_pc = "loop"
    /\ seg_result = <<>>
    /\ PageIdle
    /\ DocIdle

SegState ==
    [segments |-> segments, current_section |-> current_section,
     current_subsection |-> current_subsection, current_text |-> current_text]

SegLine ==
    /\ seg_pc = "loop"
    /\ line_idx <= Len(lines)
    /\ LET st == LoopBody(SegState, lines[line_idx])
       IN  /\ segments' = st.segments
           /\ current_section' = st.current_section
           /\ current_subsection' = st.current_subsection
           /\ current_text' = st.current_text
    /\ line_idx' = line_idx + 1
    /\ UNCHANGED <<text, lines, seg_pc, seg_result, page_vars, doc_vars>>

SegReturn ==
    /\ seg_pc = "loop"
    /\ line_idx > Len(lines)
    /\ segments' = FlushParagraph(SegState)
    /\ seg_result' = ReturnValue(SegState, text)
    /\ seg_pc' = "done"
    /\ UNCHANGED <<text, lines, line_idx, current_section, current_subsection, current_text,
                   page_vars, doc_vars>>

SegNext == SegLine \/ SegReturn

SpecSeg == SegInit /\ [][SegNext]_vars

\* ------------------------------------------------------------------------
\* The page methods, each called on one page
\* ------------------------------------------------------------------------
\* the page has every text and nothing else, or one of a few texts (or a
\* failing page.extract_text()) with every list of tables (or a failing
\* page.extract_tables()) and every list of images
PageInit ==
    /\ \/ \E ls \in LineLists :
              /\ Join(<<NL>>, ls) # <<>>
              /\ page = Page(FALSE, Join(<<NL>>, ls), FALSE, <<>>, <<>>)
       \/ \E t \in PageTexts, tb \in TableLists, im \in ImageLists :
              page = Page(FALSE, t, FALSE, tb, im)
       \/ \E tb \in TableLists, im \in ImageLists :
              page = Page(TRUE, None, FALSE, tb, im)
       \/ \E t \in PageTexts, im \in ImageLists :
              page = Page(FALSE, t, TRUE, <<>>, im)
    /\ called = "none"
    /\ out = <<>>
    /\ SegIdle
    /\ DocIdle

CallExtractTables ==
    /\ called = "none"
    /\ called' = "extract_tables"
    /\ out' = extract_tables(page)
    /\ UNCHANGED <<page, seg_vars, doc_vars>>

\* raised: page.extract_text() lies inside the try block, so no call raises
CallDetectCharts ==
    /\ called = "none"
    /\ called' = "detect_charts"
    /\ out' = detect_charts(page)
    /\ UNCHANGED <<page, seg_vars, doc_vars>>

CallProcessPage ==
    /\ called = "none"
    /\ called' = "process_page"
    /\ out' = process_page(1, page)
    /\ UNCHANGED <<page, seg_vars, doc_vars>>

PageNext == CallExtractTables \/ CallDetectCharts \/ CallProcessPage

SpecPage == PageInit /\ [][PageNext]_vars

\* ------------------------------------------------------------------------
\* extract_to_json on one parser object
\* ------------------------------------------------------------------------
\* __init__: the file at pdf_path holds the pages doc
Init ==
    /\ doc \in Docs
    /\ document = "None"
    /\ pages = <<>>
    /\ total_pages = 0
    /\ page_idx = 1
    /\ pc = "idle"
    /\ ret = "none"
    /\ calls = 0
    /\ SegIdle
    /\ PageIdle

\* load_pdf returns True
LoadOk ==
    /\ pc \in {"idle", "returned"}
    /\ calls < MaxCalls
    /\ calls' = calls + 1
    /\ document' = "open"
    /\ total_pages' = Len(doc)
    /\ page_idx' = 1
    /\ ret' = "none"
    /\ pc' = "loop"
    /\ UNCHANGED <<doc, pages, seg_vars, page_vars>>

\* pdfplumber.open raises: load_pdf returns False and extract_to_json returns {}
LoadFail ==
    /\ pc \in {"idle", "returned"}
    /\ calls < MaxCalls
    /\ calls' = calls + 1
    /\ ret' = "empty"
    /\ pc' = "returned"
    /\ UNCHANGED <<doc, document, pages, total_pages, page_idx, seg_vars, page_vars>>

\* pdfplumber.open succeeds and is assigned to self.document, then
\* len(self.document.pages) raises inside the same try block: load_pdf
\* returns False and extract_to_json returns {} before its try/finally
LoadFailAfterOpen ==
    /\ pc \in {"idle", "returned"}
    /\ calls < MaxCalls
    /\ calls' = calls + 1
    /\ document' = "open"
    /\ ret' = "empty"
    /\ pc' = "returned"
    /\ UNCHANGED <<doc, pages, total_pages, page_idx, seg_vars, page_vars>>

\* one iteration of "for page_num, page in enumerate(self.document.pages, 1)";
\* an exception of process_page leaves the loop for the except clause
ProcessPage ==
    /\ pc = "loop"
    /\ page_idx <= Len(doc)
    /\ LET page_data == process_page(page_idx, doc[page_idx])
       IN  IF page_data.raised
           THEN /\ pc' = "finally"
                /\ UNCHANGED <<pages, page_idx>>
           ELSE /\ pages' = Append(pages, [page_number |-> page_data.page_number,
                                           content |-> page_data.content])
                /\ page_idx' = page_idx + 1
                /\ pc' = pc
    /\ UNCHANGED <<doc, document, total_pages, ret, calls, seg_vars, page_vars>>

\* the loop is exhausted
LoopEnd ==
    /\ pc = "loop"
    /\ page_idx > Len(doc)
    /\ pc' = "finally"
    /\ UNCHANGED <<doc, document, pages, total_pages, page_idx, ret, calls, seg_vars, page_vars>>

\* the finally clause and "return self.extracted_data"
Finally ==
    /\ pc = "finally"
    /\ document' = IF document # "None" THEN "closed" ELSE document
    /\ ret' = "data"
    /\ pc' = "returned"
    /\ UNCHANGED <<doc, pages, total_pages, page_idx, calls, seg_vars, page_vars>>

Next == LoadOk \/ LoadFail \/ LoadFailAfterOpen \/ ProcessPage \/ LoopEnd \/ Finally

Spec == Init /\ [][Next]_vars

\* ------------------------------------------------------------------------
\* Properties of extract_tables, detect_charts and process_page (SpecPage)
\* ------------------------------------------------------------------------
InOut(s) == \E i \in 1..Len(out) : out[i] = s

\* C1: when the cleaning of the raw table at some position raises, only that
\* table is skipped: every other non-empty raw table of the page, before and
\* after it, still yields its table segment.
C1_OnlyFailingTableSkipped ==
    (/\ called = "extract_tables"
     /\ ~page.tables_raise
     /\ \E i \in 1..Len(page.tables) : CleanRaises(page.tables[i]))
    => \A j \in 1..Len(page.tables) :
           (page.tables[j] # <<>> /\ ~CleanRaises(page.tables[j]))
               => InOut(TableSegment(j, page.tables[j]))

\* C2: the two chart strategies fail independently: when the spatial strategy
\* raises it contributes no chart segment and the keyword strategy still
\* contributes its segment for a page text with a keyword line; when the
\* keyword strategy raises the spatial segments are kept.
C2_StrategiesFailIndependently ==
    called = "detect_charts" =>
        LET spatial_raises == \E k \in 1..Len(page.images) : page.images[k].raises
        IN  /\ spatial_raises =>
                /\ \A i \in 1..Len(out) : out[i].section = S_TextRef
                /\ (/\ ~page.text_raises
                    /\ Truthy(page.text)
                    /\ \E l \in 1..Len(Split(page.text)) : HasKeyword(Split(page.text)[l]))
                   => \E i \in 1..Len(out) : out[i].section = S_TextRef
            /\ (page.text_raises /\ ~spatial_raises) =>
                \A k \in 1..Len(page.images) : InOut(SpatialChart(k, page.images[k]))

\* C4: for a page whose raw text is non-empty, the content list of
\* process_page holds at least one paragraph segment, whatever the mix of
\* heading, blank and body lines.
C4_TextYieldsParagraph ==
    (called = "process_page" /\ ~out.raised /\ page.text # None /\ page.text # <<>>)
    => \E i \in 1..Len(out.content) : out.content[i].type = "paragraph"

\* a page made only of heading lines has been processed and has its paragraph
C4_Witness ==
    /\ called = "process_page"
    /\ page.text = Join(<<NL>>, <<L_Intro, L_SUMMARY>>)
    /\ ~out.raised
    /\ Len(out.content) = 1
    /\ out.content[1].type = "paragraph"

TypeRank(t) == CASE t = "paragraph" -> 1 [] t = "table" -> 2 [] t = "chart" -> 3

\* C10: in the content list of process_page all paragraph segments come
\* before all table segments, and all table segments before all chart segments.
C10_MergeOrder ==
    (called = "process_page" /\ ~out.raised)
    => \A i \in 1..Len(out.content) : \A j \in 1..Len(out.content) :
           i < j => TypeRank(out.content[i].type) <= TypeRank(out.content[j].type)

\* a processed page whose content holds a paragraph, a table and a chart
C10_Witness ==
    /\ called = "process_page"
    /\ ~out.raised
    /\ {out.content[i].type : i \in 1..Len(out.content)} = {"paragraph", "table", "chart"}

\* ------------------------------------------------------------------------
\* Properties of extract_to_json (Spec)
\* ------------------------------------------------------------------------
\* C3: once the document has loaded, every page is processed: a failing step
\* on one page affects that page only, and all other pages are in the
\* returned pages list.
C3_EveryPageProcessed ==
    (pc = "returned" /\ ret = "data" /\ calls = 1)
    => \A k \in 1..Len(doc) :
           ~doc[k].text_raises => \E i \in 1..Len(pages) : pages[i].page_number = k

\* ------------------------------------------------------------------------
\* Properties of extract_sections_from_text (SpecSeg)
\* ------------------------------------------------------------------------
StrippedLine(i) == Strip(lines[i])

\* the non-blank lines on which some pattern matches / no pattern matches
HeadIdx == {i \in 1..Len(lines) : StrippedLine(i) # <<>> /\ \E p \in 1..4 : PatternMatches(p, StrippedLine(i))}

BodyIdx == {i \in 1..Len(lines) : StrippedLine(i) # <<>> /\ \A p \in 1..4 : ~PatternMatches(p, StrippedLine(i))}

\* role and captured text of a heading line, by pattern priority
IsSectionLine(l) == MatchNumbered(l) \/ MatchAllCaps(l)

IsSubsectionLine(l) == ~IsSectionLine(l) /\ (MatchTitleColon(l) \/ MatchBold(l))

Captured(l) ==
    IF MatchNumbered(l) THEN GroupNumbered(l)
    ELSE IF MatchAllCaps(l) THEN GroupAllCaps(l)
    ELSE IF MatchTitleColon(l) THEN GroupTitleColon(l)
    ELSE GroupBold(l)

\* the body lines among lines a..b, stripped, in line order
BodyRun(a, b) ==
    SelectSeq([i \in 1..(b - a + 1) |-> StrippedLine(a + i - 1)],
              LAMBDA l : l # <<>> /\ \A p \in 1..4 : ~PatternMatches(p, l))

\* t is the single-space join of a run of body lines with no heading between
MadeOfBodyLines(t) ==
    \E a \in BodyIdx : \E b \in BodyIdx :
        /\ a <= b
        /\ HeadIdx \cap a..b = {}
        /\ t = Strip(Join(<<" ">>, BodyRun(a, b)))

\* C5: every emitted paragraph segment has a text that is non-empty after
\* trimming, also for a text of blank lines only.
C5_ParagraphTextNonEmpty ==
    seg_pc = "done" =>
        \A s \in 1..Len(seg_result) :
            seg_result[s].type = "paragraph" => Strip(seg_result[s].text) # <<>>

\* C6 as stated: for a text with heading lines, no emitted paragraph holds a
\* heading line: every paragraph text is made of body lines only.
C6_NoHeadingInParagraph ==
    (seg_pc = "done" /\ HeadIdx # {})
    => \A s \in 1..Len(seg_result) : MadeOfBodyLines(seg_result[s].text)

\* C6 amended: a heading line is never added to the accumulator, and every
\* paragraph flushed from the accumulator is made of body lines only; the
\* one paragraph that can hold heading lines is the fallback, returned when
\* no paragraph was flushed, whose text is the whole trimmed input.
C6_HeadingOnlyInFallback ==
    /\ \A c \in 1..Len(current_text) : \E i \in BodyIdx : current_text[c] = StrippedLine(i)
    /\ \A s \in 1..Len(segments) : MadeOfBodyLines(segments[s].text)
    /\ seg_pc = "done" =>
           IF segments # <<>> THEN seg_result = segments
           ELSE seg_result = <<Paragraph(None, None, Strip(text))>>

\* a text with heading and body lines has been segmented
C6_Witness ==
    /\ seg_pc = "done"
    /\ HeadIdx # {}
    /\ Len(segments) >= 2
    /\ seg_result = segments

\* C7: a line on which a pattern matches with a captured text that is empty
\* after trimming is treated as no match: it is added to the accumulator,
\* flushes nothing and leaves the context alone, and no section or
\* sub_section is ever the empty string.
C7_BlankCaptureSkipped ==
    /\ [][(/\ seg_pc = "loop"
           /\ line_idx <= Len(lines)
           /\ line_idx' = line_idx + 1
           /\ line_idx \in HeadIdx
           /\ Strip(Captured(StrippedLine(line_idx))) = <<>>)
          => /\ segments' = segments
             /\ current_section' = current_section
             /\ current_subsection' = current_subsection
             /\ current_text' = Append(current_text, StrippedLine(line_idx))]_vars
    /\ [](/\ current_section # <<>>
          /\ current_subsection # <<>>
          /\ \A s \in 1..Len(seg_result) :
                 seg_result[s].section # <<>> /\ seg_result[s].sub_section # <<>>)

\* C8: after a section line current_section is the trimmed captured text and
\* current_subsection is absent; after a subsection line current_subsection
\* is the trimmed captured text and current_section is unchanged; so
\* "1. Overview", "Summary:", "Next text" yields one paragraph "Next text"
\* tagged (Overview, Summary).
C8_ContextUpdate ==
    /\ [][(seg_pc = "loop" /\ line_idx <= Len(lines) /\ line_idx' = line_idx + 1 /\ line_idx \in HeadIdx)
          => LET l == StrippedLine(line_idx)
             IN  /\ IsSectionLine(l) =>
                        current_section' = Strip(Captured(l)) /\ current_subsection' = None
                 /\ IsSubsectionLine(l) =>
                        current_subsection' = Strip(Captured(l)) /\ current_section' = current_section]_vars
    /\ [](seg_pc = "done" /\ text = T_Overview
          => seg_result = <<Paragraph(<<"O", "v", "e", "r", "v", "i", "e", "w">>,
                                      <<"S", "u", "m", "m", "a", "r", "y">>,
                                      <<"N", "e", "x", "t", " ", "t", "e", "x", "t">>)>>)

\* the Overview scenario has run to its return
C8_Witness ==
    /\ seg_pc = "done"
    /\ text = T_Overview
    /\ Len(seg_result) = 1
    /\ seg_result[1].sub_section = <<"S", "u", "m", "m", "a", "r", "y">>

\* the first lines of the paragraphs: body lines whose nearest non-blank
\* line above, if any, is a heading
RunStarts ==
    {i \in BodyIdx : \A j \in BodyIdx : j < i => \E h \in HeadIdx : j < h /\ h < i}

\* the k-th smallest element of S
RECURSIVE Nth(_, _)
Nth(S, k) == IF k = 1 THEN SetMin(S) ELSE Nth(S \ {SetMin(S)}, k - 1)

\* the context the headings above line i set
SectionAbove(i) ==
    LET S == {h \in HeadIdx : h < i /\ IsSectionLine(StrippedLine(h))}
    IN  IF S = {} THEN None ELSE Strip(Captured(StrippedLine(SetMax(S))))

SubsectionAbove(i) ==
    LET S == {h \in HeadIdx : h < i /\ IsSectionLine(StrippedLine(h))}
        from == IF S = {} THEN 0 ELSE SetMax(S)
        U == {h \in HeadIdx : from < h /\ h < i /\ IsSubsectionLine(StrippedLine(h))}
    IN  IF U = {} THEN None ELSE Strip(Captured(StrippedLine(SetMax(U))))

\* C9: a paragraph flushed at a heading line is tagged with the context in
\* force before that heading is applied; so every paragraph carries the
\* context set by the headings above its first line (absent if none), and
\* "1. Intro / Hello world / (blank) / SUMMARY / Short text here" yields
\* exactly (Intro, "Hello world") then (SUMMARY, "Short text here").
C9_PreMatchContext ==
    /\ [][(/\ seg_pc = "loop" /\ line_idx <= Len(lines) /\ line_idx' = line_idx + 1
           /\ line_idx \in HeadIdx /\ current_text # <<>>)
          => /\ Len(segments') = Len(segments) + 1
             /\ segments'[Len(segments')].section = current_section
             /\ segments'[Len(segments')].sub_section = current_subsection]_vars
    /\ [](seg_pc = "done" =>
            /\ Len(segments) = Cardinality(RunStarts)
            /\ \A k \in 1..Len(segments) :
                   /\ segments[k].section = SectionAbove(Nth(RunStarts, k))
                   /\ segments[k].sub_section = SubsectionAbove(Nth(RunStarts, k))
            /\ \A s \in 1..Len(seg_result) :
                   seg_result[s] \notin {segments[k] : k \in 1..Len(segments)}
                       => seg_result[s].section = None /\ seg_result[s].sub_section = None)
    /\ [](seg_pc = "done" /\ text = T_IntroSummary
          => seg_result = <<Paragraph(<<"I", "n", "t", "r", "o">>, None, L_Hello),
                            Paragraph(L_SUMMARY, None, L_Short)>>)

\* the Intro/SUMMARY scenario has run to its return with its two paragraphs
C9_Witness ==
    /\ seg_pc = "done"
    /\ text = T_IntroSummary
    /\ Len(seg_result) = 2
    /\ seg_result[2].section = L_SUMMARY

\* ------------------------------------------------------------------------
\* Properties of the keyword chart strategy (SpecPage)
\* ------------------------------------------------------------------------
\* the chart segments of the keyword strategy in what detect_charts returned
KeywordSegments == SelectSeq(out, LAMBDA c : c.section = S_TextRef)

\* the lines of the page text (none when the page has no text)
PageLines == IF Truthy(page.text) THEN Split(page.text) ELSE <<>>

KeywordLines == {i \in 1..Len(PageLines) : HasKeyword(PageLines[i])}

\* C11: the keyword strategy emits at most one chart segment per page:
\* exactly one when some line of the page text holds a keyword, and then its
\* description and context_text are the first such line, trimmed; none when
\* no line holds a keyword.
C11_OneKeywordChart ==
    (called = "detect_charts" /\ ~page.text_raises)
    => IF KeywordLines = {} THEN KeywordSegments = <<>>
       ELSE /\ Len(KeywordSegments) = 1
            /\ KeywordSegments[1].description = Strip(PageLines[SetMin(KeywordLines)])
            /\ KeywordSegments[1].context_text = Strip(PageLines[SetMin(KeywordLines)])

\* the chart segments a call on the page returned
ChartsOut ==
    IF called = "detect_charts" THEN out
    ELSE IF called = "process_page" /\ ~out.raised
         THEN SelectSeq(out.content, LAMBDA c : c.type = "chart")
    ELSE <<>>

\* C12: every chart segment, of either strategy, has a context_text that is
\* the no-context sentinel or a string of at most 200 characters.
C12_ContextTextBounded ==
    \A i \in 1..Len(ChartsOut) :
        \/ ChartsOut[i].context_text = S_NoContext
        \/ Len(ChartsOut[i].context_text) <= ContextLimit

\* ------------------------------------------------------------------------
\* Properties of the table segments (SpecPage)
\* ------------------------------------------------------------------------
\* t is raw without its leading and trailing whitespace
IsTrimOf(t, raw) ==
    \E a \in 1..(Len(raw) + 1) : \E b \in 0..Len(raw) :
        /\ t = SubSeq(raw, a, b)
        /\ \A i \in 1..(a - 1) : raw[i] \in Whitespace
        /\ \A i \in (b + 1)..Len(raw) : raw[i] \in Whitespace
        /\ t # <<>> => (t[1] \notin Whitespace /\ t[Len(t)] \notin Whitespace)

\* seg is the table segment of the raw table: same shape, every cell trimmed
\* (absent or empty gives ""), trimmed cells stay as they are when trimmed
\* again, description "Extracted table with R rows and C columns"
NormalisedFrom(raw, seg) ==
    /\ Len(seg.table_data) = Len(raw)
    /\ \A r \in 1..Len(raw) :
           /\ Len(seg.table_data[r]) = Len(raw[r])
           /\ \A j \in 1..Len(raw[r]) :
                  /\ IF raw[r][j] = None \/ raw[r][j] = <<>>
                     THEN seg.table_data[r][j] = <<>>
                     ELSE IsTrimOf(seg.table_data[r][j], raw[r][j])
                  /\ IsTrimOf(seg.table_data[r][j], seg.table_data[r][j])
    /\ seg.description =
           S_Extracted \o IntToStr(Len(raw)) \o S_RowsAnd
               \o IntToStr(IF raw[1] = <<>> THEN 0 ELSE Len(raw[1])) \o S_Columns

TableFails == page.tables_raise \/ \E k \in 1..Len(page.tables) : CleanRaises(page.tables[k])

\* C13: the table segment of a raw table with at least one row has the rows
\* and row lengths of the raw table, every cell being the raw cell trimmed
\* (absent or empty gives ""), trimming is idempotent, and the description
\* is "Extracted table with R rows and C columns", C the length of the first
\* row; [["A"," b "],["1","2"]] gives [["A","b"],["1","2"]], 2 rows, 2 columns.
C13_TableNormalised ==
    called = "extract_tables" =>
        /\ \A s \in 1..Len(out) :
               \E k \in 1..Len(page.tables) :
                   /\ out[s].section = S_Table \o IntToStr(k)
                   /\ page.tables[k] # <<>>
                   /\ NormalisedFrom(page.tables[k], out[s])
        /\ ~TableFails =>
               \A k \in 1..Len(page.tables) :
                   page.tables[k] # <<>> =>
                       \E s \in 1..Len(out) : out[s].section = S_Table \o IntToStr(k)
        /\ page.tables = <<RawTable_AB>> =>
               /\ Len(out) = 1
               /\ out[1].table_data = << <<<<"A">>, <<"b">>>>, <<<<"1">>, <<"2">>>> >>
               /\ out[1].description = <<"E", "x", "t", "r", "a", "c", "t", "e", "d", " ", "t", "a", "b", "l", "e", " ", "w", "i", "t", "h", " ", "2", " ", "r", "o", "w", "s", " ", "a", "n", "d", " ", "2", " ", "c", "o", "l", "u", "m", "n", "s">>

\* the scenario table and a table with a padded, an absent and an empty cell
\* have been normalised
C13_Witness ==
    /\ called = "extract_tables"
    /\ page.tables = <<RawTable_AB, RawTable_Foo>>
    /\ Len(out) = 2
    /\ out[2].table_data = << <<<<"f", "o", "o">>, <<>>, <<>>>> >>

\* ------------------------------------------------------------------------
\* Properties of the document handle and of the pages list (Spec)
\* ------------------------------------------------------------------------
\* C14: a document handle acquired by a successful load is released before
\* extract_to_json returns, after all pages and also after an error on a
\* page; when the load fails no handle is held and the result has no pages.
C14_HandleReleased ==
    pc = "returned" =>
        /\ document # "open"
        /\ ret = "data" => document = "closed"
        /\ ret = "empty" => document # "open"

\* ------------------------------------------------------------------------
\* Blank lines, the title-case rule and the body lines (SpecSeg)
\* ------------------------------------------------------------------------
\* the text with its empty and whitespace-only lines removed
WithoutBlankLines == Join(<<NL>>, SelectSeq(lines, LAMBDA l : Strip(l) # <<>>))

\* the text with an empty or a whitespace-only line put before every line
\* and after the last one
WithBlankLines ==
    Join(<<NL>>, [i \in 1..(2 * Len(lines) + 1) |->
                    IF i % 2 = 0 THEN lines[i \div 2]
                    ELSE IF i % 4 = 1 THEN <<>> ELSE <<" ">>])

\* C15 as stated: removing or inserting blank lines anywhere leaves the
\* emitted segments unchanged, for every text (with a non-blank line).
C15_BlankLinesInvisible ==
    (seg_pc = "done" /\ HeadIdx \cup BodyIdx # {})
    => /\ seg_result = extract_sections_from_text(WithoutBlankLines)
       /\ seg_result = extract_sections_from_text(WithBlankLines)

\* C15 amended: removing or inserting blank lines anywhere leaves the emitted
\* segments unchanged for every text with at least one body line.
C15_BlankLinesInvisibleWithBody ==
    (seg_pc = "done" /\ BodyIdx # {})
    => /\ seg_result = extract_sections_from_text(WithoutBlankLines)
       /\ seg_result = extract_sections_from_text(WithBlankLines)

\* a text with a blank line between two body lines has been segmented
C15_Witness ==
    /\ seg_pc = "done"
    /\ \E i \in BodyIdx : \E j \in BodyIdx :
           i < j /\ \E b \in (i + 1)..(j - 1) : Strip(lines[b]) = <<>>
    /\ WithoutBlankLines # text
    /\ seg_result = extract_sections_from_text(WithoutBlankLines)

\* a capitalised lowercase phrase, a colon, then further text
TitleColonWithTail(l) ==
    LET k == SpanIn(l, 2, Lower \cup Whitespace)
    IN  /\ Len(l) >= 1
        /\ l[1] \in Upper
        /\ k >= 1
        /\ k + 2 < Len(l)
        /\ l[k + 2] = ":"

\* C16: the title-case rule makes a line a subsection heading only when the
\* line ends with the colon; a line with further text after the colon is no
\* heading: it is added to the accumulator and changes nothing else.
C16_TitleColonEndsLine ==
    [][(/\ seg_pc = "loop"
        /\ line_idx <= Len(lines)
        /\ line_idx' = line_idx + 1
        /\ TitleColonWithTail(StrippedLine(line_idx)))
       => /\ current_text' = Append(current_text, StrippedLine(line_idx))
          /\ segments' = segments
          /\ current_section' = current_section
          /\ current_subsection' = current_subsection]_vars

\* ------------------------------------------------------------------------
\* Table labels (SpecPage)
\* ------------------------------------------------------------------------
\* C17 as stated: when no table fails, the k-th table segment of a page is
\* labelled "Table k": the labels are 1..n without gaps, also when raw
\* tables with zero rows are dropped.
C17_LabelsWithoutGaps ==
    (called = "extract_tables" /\ ~TableFails)
    => \A s \in 1..Len(out) : out[s].section = S_Table \o IntToStr(s)

\* the 1-based positions of the raw tables with at least one row
TablePositions == {k \in 1..Len(page.tables) : page.tables[k] # <<>>}

\* C17 amended: when no table fails, the k-th table segment is labelled with
\* the 1-based position of its raw table among all raw tables of the page,
\* dropped ones included: labels are distinct and increasing, and they are
\* 1..n exactly when no raw table with zero rows precedes a kept one.
C17_LabelsArePositions ==
    (called = "extract_tables" /\ ~TableFails)
    => /\ Len(out) = Cardinality(TablePositions)
       /\ \A s \in 1..Len(out) : out[s].section = S_Table \o IntToStr(Nth(TablePositions, s))
       /\ \A s \in 1..Len(out) : \A t \in 1..Len(out) : s # t => out[s].section # out[t].section
       /\ (\A k \in TablePositions : \A e \in 1..k : page.tables[e] # <<>>)
              <=> \A s \in 1..Len(out) : out[s].section = S_Table \o IntToStr(s)

\* a page with a zero-row table before a kept one: the kept one is "Table 2"
C17_Witness ==
    /\ called = "extract_tables"
    /\ page.tables = <<<<>>, RawTable_AB>>
    /\ Len(out) = 1
    /\ out[1].section = <<"T", "a", "b", "l", "e", " ", "2">>

\* ------------------------------------------------------------------------
\* Body lines (SpecSeg)
\* ------------------------------------------------------------------------
\* the body lines of the text, stripped, in line order
AllBodyLines == BodyRun(1, Len(lines))

\* the last line of the paragraph that starts at the run start a
RunEnd(a) ==
    SetMax({b \in BodyIdx : a <= b /\ HeadIdx \cap a..b = {}})

\* the body lines of the k-th paragraph
RunLines(k) == BodyRun(Nth(RunStarts, k), RunEnd(Nth(RunStarts, k)))

RECURSIVE Concat(_)
Concat(seqs) == IF seqs = <<>> THEN <<>> ELSE Head(seqs) \o Concat(Tail(seqs))

\* C18: for a text with at least one body line, every body line, trimmed, is
\* in exactly one paragraph text, once, in line order, the lines of one
\* paragraph joined by single spaces; two consecutive body lines are in
\* different paragraphs exactly when a heading line lies between them (the
\* k-th paragraph is the k-th run of body lines with no heading line inside).
C18_BodyLinesConserved ==
    (seg_pc = "done" /\ BodyIdx # {})
    => /\ Len(seg_result) = Cardinality(RunStarts)
       /\ \A k \in 1..Len(seg_result) : seg_result[k].text = Join(<<" ">>, RunLines(k))
       /\ Concat([k \in 1..Len(seg_result) |-> RunLines(k)]) = AllBodyLines

\* two consecutive body lines, the second one padded, are one paragraph
\* joined by a single space, closed by the heading line that follows
C18_Witness ==
    /\ seg_pc = "done"
    /\ text = Join(<<NL>>, <<L_Hello, L_NextText, L_SUMMARY>>)
    /\ Len(seg_result) = 1
    /\ seg_result[1].text = <<"H", "e", "l", "l", "o", " ", "w", "o", "r", "l", "d", " ", "N", "e", "x", "t", " ", "t", "e", "x", "t">>

\* ------------------------------------------------------------------------
\* The pages list over repeated calls (Spec)
\* ------------------------------------------------------------------------
\* no page of the document fails in a step of process_page
NoPageFails ==
    \A k \in 1..Len(doc) :
        /\ ~doc[k].text_raises
        /\ ~doc[k].tables_raise
        /\ \A t \in 1..Len(doc[k].tables) : ~CleanRaises(doc[k].tables[t])
        /\ \A m \in 1..Len(doc[k].images) : ~doc[k].images[m].raises

\* C19: after every extract_to_json call whose load succeeds and in which no
\* page step fails, the returned pages list has total_pages entries with
\* page_number 1, 2, ..., total_pages in this order, after any number of
\* calls on the same parser object.
C19_PagesMatchTotalPages ==
    (pc = "returned" /\ ret = "data" /\ NoPageFails)
    => /\ Len(pages) = total_pages
       /\ \A i \in 1..Len(pages) : pages[i].page_number = i

====
